---- MODULE Spec2Model ----
(***************************************************************************)
(* A model of parsnip: the Pratt parser of parsnip.py (the parselet        *)
(* registry and the precedence-climbing engine), the calculator grammar of *)
(* demo.py and the regex lexer of simplex.py.                              *)
(*                                                                         *)
(* The engine is a state machine over an explicit stack of _parse          *)
(* activations.  The token generator is lazy, as in the code: a call of    *)
(* next() either yields one more token or ends the input, and `consumed'   *)
(* records what the generator has yielded in the current parse call.       *)
(***************************************************************************)
EXTENDS Integers, Sequences, FiniteSets, TLC

VARIABLES
    grammar,          \* which Parser subclass was constructed
    parselets,        \* Parser.parselets: tag -> Parselet
    pc,               \* "idle" | "parse_loop": position in Parser.parse
    stack,            \* activations of Parser._parse, innermost last
    lookahead,        \* Parser.lookahead
    input_remaining,  \* Parser.input_remaining
    val,              \* local `val' of Parser.parse
    consumed,         \* what the generator self.tokens has yielded so far, and last
                      \* the lexical error it raised, if it did
    exhausted,        \* the generator self.tokens is finished: it has raised
    outcome,          \* how the last parse call ended
    reg_log,          \* registrations made so far on the registry under construction
    reg_error,        \* the error raised by the last registration call, "" if none
    reuse,            \* the calls compared when a parser instance is used again
    lexer,            \* a Lexer and the state of one call of its lex generator
    conc              \* two parse calls in progress on one instance: who runs, who waits

vars == <<grammar, parselets, pc, stack, lookahead, input_remaining, val,
          consumed, exhausted, outcome, reg_log, reg_error, reuse, lexer,
          conc>>

(***************************************************************************)
(* Bounds                                                                  *)
(***************************************************************************)
MaxLen == 7      \* longest token sequence the calculator's lexer yields
MaxLenExt == 5   \* the same for the second grammar, whose pow grows fast
MaxDepth == 10   \* stands for the interpreter's recursion limit
MaxRegs == 3     \* registrations made on one registry under construction
ReuseLen == 4    \* longest token sequence of a call on a parser used again
MaxText == 4     \* longest input text handed to lex
ConcLen == 3     \* longest token sequence of two interleaved calls

(***************************************************************************)
(* Values.  None is the empty tuple and a value v is <<v>>, so that        *)
(* `left_value is None' is a comparison of two tuples.                     *)
(***************************************************************************)
None == <<>>
Some(v) == <<v>>
Max(a, b) == IF a >= b THEN a ELSE b

(***************************************************************************)
(* Tokens (simplex.Token).  value is the tag's conversion applied to text: *)
(* int(text) for INT, the text itself for a symbol.                        *)
(***************************************************************************)
Tok(tag, text) == [tag |-> tag, text |-> text]
NoToken == Tok("None", "")
StopIteration == Tok("StopIteration", "")
\* next(self.tokens) when lex reaches a character that only the catch-all
\* rule matches: lex_error raises SyntaxError out of the generator
\* (simplex.py lines 12-13 and 99), and the generator is finished
LexFailure == Tok("LEX_ERROR", "?")

mkint(s) ==
    CASE s = "1" -> 1 [] s = "2" -> 2 [] s = "3" -> 3 [] s = "8" -> 8

TokenValue(token) == mkint(token.text)

(***************************************************************************)
(* Handler functions: those of demo.CalcParse, and pow and fact of the     *)
(* second grammar.                                                         *)
(***************************************************************************)
negate(v) == 0 - v
add(l, r) == l + r
sub(l, r) == l - r
mul(l, r) == l * r
\* true division; it is an integer only where r divides l (no DIV token is drawn)
div(l, r) == l \div r
\* a handler of the pair that does not hand back the body it was given
parens_off_by_one(expr) == expr + 1
parens(expr) == expr
pow(l, r) == l ^ r
fact(v) == v + 100

Apply1(func, v) ==
    CASE func = "negate" -> negate(v)
      [] func = "parens" -> parens(v)
      [] func = "fact" -> fact(v)

\* a call that ends in add whatever function the closure holds
Apply2_always_add(func, l, r) == add(l, r)

Apply2(func, l, r) ==
    CASE func = "add" -> add(l, r)
      [] func = "sub" -> sub(l, r)
      [] func = "mul" -> mul(l, r)
      [] func = "div" -> div(l, r)
      [] func = "pow" -> pow(l, r)

(***************************************************************************)
(* The grammar decorators: each tags a function with a role, a tag and a   *)
(* precedence.                                                             *)
(***************************************************************************)
Decl(role, tag, end, precedence, func) ==
    [role |-> role, tag |-> tag, end |-> end, precedence |-> precedence,
     func |-> func]

prefix(tag, precedence, func) == Decl("prefix", tag, "", precedence, func)
infix(tag, precedence, func) == Decl("infix", tag, "", precedence, func)
infix_r(tag, precedence, func) == Decl("infix", tag, "", precedence - 1, func)
postfix(tag, precedence, func) == Decl("postfix", tag, "", precedence, func)
surrounding(start, end, precedence, func) ==
    Decl("surrounding", start, end, precedence, func)

(***************************************************************************)
(* Parselets and the closures the _add_* methods install as handlers.      *)
(* A closure keeps the precedence, closing tag and function it captured.   *)
(***************************************************************************)
Closure(kind, precedence, end, func) ==
    [kind |-> kind, precedence |-> precedence, end |-> end, func |-> func]
NoHandler == Closure("none", 0, "", "")

Parselet(precedence, null, left) ==
    [precedence |-> precedence, null |-> null, left |-> left]

\* update as it would be without the checks: a later handler replaces the
\* earlier one
update_overwrite(self, precedence, null, left) ==
    [parselet |->
        [precedence |-> Max(self.precedence, precedence),
         null |-> IF null.kind # "none" THEN null ELSE self.null,
         left |-> IF left.kind # "none" THEN left ELSE self.left],
     error |-> ""]

\* Parselet.update: the precedence is raised first, then the handlers are set
update(self, precedence, null, left) ==
    LET p0 == [self EXCEPT !.precedence = Max(self.precedence, precedence)]
    IN  IF null.kind # "none" /\ self.null.kind # "none"
        THEN [parselet |-> p0,
              error |-> "RuntimeError: null handler already defined"]
        ELSE LET p1 == IF null.kind # "none" THEN [p0 EXCEPT !.null = null]
                       ELSE p0
             IN  IF left.kind # "none" /\ self.left.kind # "none"
                 THEN [parselet |-> p1,
                       error |-> "RuntimeError: left handler already defined"]
                 ELSE [parselet |-> IF left.kind # "none"
                                    THEN [p1 EXCEPT !.left = left] ELSE p1,
                       error |-> ""]

\* a registry that keeps the precedence of the first registration of a tag
_add_or_update_parselet_first_precedence(ps, tag, precedence, null, left) ==
    IF tag \in DOMAIN ps
    THEN LET r == update(ps[tag], ps[tag].precedence, null, left)
         IN  [parselets |-> [ps EXCEPT ![tag] = r.parselet], error |-> r.error]
    ELSE [parselets |-> (tag :> Parselet(precedence, null, left)) @@ ps,
          error |-> ""]

\* A registration yields the registry afterwards and the error raised, if any
_add_or_update_parselet(ps, tag, precedence, null, left) ==
    IF tag \in DOMAIN ps
    THEN LET r == update(ps[tag], precedence, null, left)
         IN  [parselets |-> [ps EXCEPT ![tag] = r.parselet], error |-> r.error]
    ELSE [parselets |-> (tag :> Parselet(precedence, null, left)) @@ ps,
          error |-> ""]

_add_null_handler(ps, tag, precedence, func) ==
    _add_or_update_parselet(ps, tag, precedence, func, NoHandler)

_add_left_handler(ps, tag, precedence, func) ==
    _add_or_update_parselet(ps, tag, precedence, NoHandler, func)

_add_symbol(ps, tag) ==
    _add_or_update_parselet(ps, tag, 0, NoHandler, NoHandler)

_add_prefix(ps, tag, precedence, func) ==
    _add_null_handler(ps, tag, precedence, Closure("prefix", precedence, "", func))

_add_infix(ps, tag, precedence, func) ==
    _add_left_handler(ps, tag, precedence, Closure("infix", precedence, "", func))

_add_postfix(ps, tag, precedence, func) ==
    _add_left_handler(ps, tag, precedence, Closure("postfix", precedence, "", func))

_add_surrounding(ps, start, end, precedence, func) ==
    _add_null_handler(_add_symbol(ps, end).parselets, start, precedence,
                      Closure("surrounding", precedence, end, func))

_add_literal(ps, tag) ==
    _add_null_handler(ps, tag, 0, Closure("literal", 0, "", "identity"))

\* The dispatch of Parser.__init__ on the attribute a decorator has set
Register(ps, d) ==
    CASE d.role = "prefix" -> _add_prefix(ps, d.tag, d.precedence, d.func)
      [] d.role = "infix" -> _add_infix(ps, d.tag, d.precedence, d.func)
      [] d.role = "postfix" -> _add_postfix(ps, d.tag, d.precedence, d.func)
      [] d.role = "surrounding" ->
            _add_surrounding(ps, d.tag, d.end, d.precedence, d.func)
      [] d.role = "symbol" -> _add_symbol(ps, d.tag)
      [] d.role = "literal" -> _add_literal(ps, d.tag)

Symbol(tag) == Decl("symbol", tag, "", 0, "")
Literal(tag) == Decl("literal", tag, "", 0, "")

EmptyRegistry == [t \in {} |-> Parselet(0, NoHandler, NoHandler)]

RECURSIVE RegisterAll(_, _)
RegisterAll(ps, decls) ==
    IF decls = <<>> THEN ps
    ELSE RegisterAll(Register(ps, Head(decls)).parselets, Tail(decls))

\* Parser.__init__: the decorated methods in dir() order, SYMBOLS, LITERALS
Parser__init__(methods, SYMBOLS, LITERALS) ==
    RegisterAll(EmptyRegistry,
                methods \o [i \in 1..Len(SYMBOLS) |-> Symbol(SYMBOLS[i])]
                        \o [i \in 1..Len(LITERALS) |-> Literal(LITERALS[i])])

\* demo.CalcParse; dir() lists the methods in alphabetical order
CalcParse ==
    Parser__init__(<<infix("ADD", 1, "add"),
                     infix("DIV", 5, "div"),
                     infix("MUL", 5, "mul"),
                     prefix("SUB", 10, "negate"),
                     surrounding("LPAREN", "RPAREN", 0, "parens"),
                     infix("SUB", 1, "sub")>>,
                   <<>>, <<"INT">>)

\* A second grammar: two infix operators at one precedence, neither with
\* another handler, a right-associative operator, a postfix operator and a
\* bare symbol, next to INT.  Its lexer also knows the tag AT, which the
\* parser never declares.
ExtParse ==
    Parser__init__(<<infix("ADD", 1, "add"),
                     postfix("BANG", 7, "fact"),
                     infix_r("POW", 6, "pow"),
                     infix("SUB", 1, "sub")>>,
                   <<"SEMI">>, <<"INT">>)

Grammars == {"calc", "ext"}
ParserOf(g) == IF g = "calc" THEN CalcParse ELSE ExtParse

InputLimit(g) == IF g = "calc" THEN MaxLen ELSE MaxLenExt

\* The tokens the lexer of each grammar can yield
Alphabet(g) ==
    IF g = "calc"
    THEN {Tok("INT", "2"), Tok("INT", "3"), Tok("INT", "8"), Tok("ADD", "+"),
          Tok("SUB", "-"), Tok("MUL", "*"), Tok("LPAREN", "("),
          Tok("RPAREN", ")")}
    ELSE {Tok("INT", "2"), Tok("INT", "3"), Tok("ADD", "+"), Tok("SUB", "-"),
          Tok("POW", "^"), Tok("BANG", "!"), Tok("SEMI", ";"), Tok("AT", "@")}

(***************************************************************************)
(* simplex.Lexer.  A pattern is an optional leading character, then one    *)
(* character of a class, or one or more of them: `a', `\s+', `-?\d+'.      *)
(* The texts are sequences of characters.                                  *)
(***************************************************************************)
Chars == {"1", "-", "+", " ", "\n", "@"}
Digits == {"0", "1", "2", "3", "4", "5", "6", "7", "8", "9"}
Whitespace == {" ", "\t", "\n", "\r"}

Regex(opt, chars, plus) == [opt |-> opt, chars |-> chars, plus |-> plus]
Char(c) == Regex({}, {c}, FALSE)
\* `.' without the DOTALL flag: any character but a line break
Dot == Regex({}, Chars \ {"\n"}, FALSE)

Tag(tag, regex) == [tag |-> tag, regex |-> regex]

\* 'IGNORE{}'.format(self._ignore_count)
IgnoreName(count) ==
    CASE count = 0 -> "IGNORE0" [] count = 1 -> "IGNORE1" [] count = 2 -> "IGNORE2"

\* lex_tag.startswith('IGNORE'), on the tag names of the lexers below
StartsWithIGNORE(tag) == tag \in {"IGNORE0", "IGNORE1", "IGNORE2", "IGNORED"}

\* Lexer.__init__ with _build: the tagged methods in dir() order, the
\* ignore-patterns, the symbols, and the catch-all LEX_ERROR last
Lexer__init__(tagged, IGNORE, SYMBOLS) ==
    tagged \o [i \in 1..Len(IGNORE) |-> Tag(IgnoreName(i - 1), IGNORE[i])]
           \o SYMBOLS
           \o <<Tag("LEX_ERROR", Dot)>>

\* The class attributes of a Lexer subclass: its tagged methods in dir()
\* order, IGNORE and SYMBOLS
LexerClass(tagged, IGNORE, SYMBOLS) ==
    [tagged |-> tagged, IGNORE |-> IGNORE, SYMBOLS |-> SYMBOLS]

\* demo.CalcLex
CalcLex ==
    LexerClass(<<Tag("INT", Regex({"-"}, Digits, TRUE))>>,
               <<Regex({}, Whitespace, TRUE), Char("\n")>>,
               <<Tag("ADD", Char("+")), Tag("SUB", Char("-")),
                 Tag("MUL", Char("*")), Tag("DIV", Char("/")),
                 Tag("LPAREN", Char("(")), Tag("RPAREN", Char(")"))>>)

\* A lexer with one ignore-pattern and one symbol, and none for a line break
PlusLex ==
    LexerClass(<<>>, <<Char(" ")>>, <<Tag("ADD", Char("+"))>>)

\* A lexer with a symbol whose tag is named IGNORED
NoteLex ==
    LexerClass(<<>>, <<Char(" ")>>,
               <<Tag("IGNORED", Char("@")), Tag("ADD", Char("+"))>>)

Lexers == {"CalcLex", "PlusLex", "NoteLex"}
ClassOf(cls) ==
    CASE cls = "CalcLex" -> CalcLex
      [] cls = "PlusLex" -> PlusLex
      [] cls = "NoteLex" -> NoteLex
TagsOf(cls) ==
    Lexer__init__(ClassOf(cls).tagged, ClassOf(cls).IGNORE,
                  ClassOf(cls).SYMBOLS)

\* the rule at index i of self.tags was appended by ignore (line 56): the
\* ignore-patterns follow the tagged methods (lines 43-49)
AddedByIgnore(cls, i) ==
    /\ Len(ClassOf(cls).tagged) < i
    /\ i <= Len(ClassOf(cls).tagged) + Len(ClassOf(cls).IGNORE)

Texts == UNION {[1..n -> Chars] : n \in 0..MaxText}

LexerState(cls, text, pos, emitted, skipped, state, error) ==
    [cls |-> cls, text |-> text, pos |-> pos, emitted |-> emitted,
     skipped |-> skipped, state |-> state, error |-> error]
NoLexer == LexerState("none", <<>>, 1, <<>>, {}, "idle", <<>>)

\* the length of the run of characters of class cs in text from position k
RECURSIVE RunLen(_, _, _)
RunLen(text, cs, k) ==
    IF k <= Len(text) /\ text[k] \in cs THEN 1 + RunLen(text, cs, k + 1) ELSE 0

\* the length of the match of rx at position q of text, 0 if it does not match
MatchLen(text, rx, q) ==
    LET body(k) == IF k <= Len(text) /\ text[k] \in rx.chars
                   THEN (IF rx.plus THEN RunLen(text, rx.chars, k) ELSE 1)
                   ELSE 0
    IN  IF q <= Len(text) /\ text[q] \in rx.opt /\ body(q + 1) > 0
        THEN 1 + body(q + 1)
        ELSE body(q)

\* the alternative of the master regex that matches at q: the first in
\* registration order, 0 if none does
FirstRule(tags, text, q) ==
    LET hits == {i \in 1..Len(tags) : MatchLen(text, tags[i].regex, q) > 0}
    IN  IF hits = {} THEN 0 ELSE CHOOSE i \in hits : \A j \in hits : i <= j

\* re.finditer: the next match is at the first position from pos on at which
\* an alternative matches; Len(text) + 1 if there is none
NextMatchPos(tags, text, pos) ==
    LET at == {q \in pos..Len(text) : FirstRule(tags, text, q) > 0}
    IN  IF at = {} THEN Len(text) + 1
        ELSE CHOOSE q \in at : \A q2 \in at : q <= q2

(***************************************************************************)
(* The state of one parse call                                             *)
(***************************************************************************)
Outcome(kind, error, text, value) ==
    [kind |-> kind, error |-> error, text |-> text, value |-> value]

\* The handler closure that called _parse and waits for its result
Caller(kind, func, left, end) ==
    [kind |-> kind, func |-> func, left |-> left, end |-> end]

\* An activation of _parse(max_bind, left_value), line 227
NewFrame(max_bind, left_value, caller) ==
    [max_bind |-> max_bind, left_value |-> left_value, early_return |-> FALSE,
     pc |-> IF left_value = None THEN "null" ELSE "loop", caller |-> caller]

Top == stack[Len(stack)]
Below == SubSeq(stack, 1, Len(stack) - 1)

\* next(self.tokens): one more token, or StopIteration; an exhausted
\* generator raises StopIteration again
\* While the calls of one instance are compared (reuse.phase > 0) the inputs
\* are bounded by ReuseLen (by ConcLen when two calls interleave), and the
\* last call lexes the text of the call before it
Reuse(phase, script, prior, expected) ==
    [phase |-> phase, script |-> script, prior |-> prior,
     expected |-> expected]
NoPrior == [kind |-> "none", part_way |-> FALSE]
NoReuse == Reuse(0, <<>>, NoPrior, Outcome("none", "", "", None))

\* What a call of parse keeps to itself: its position, the activations of
\* _parse with their locals, the local `val' (lines 205-209) and how it ended
CallState(p, stk, v, o) == [pc |-> p, stack |-> stk, val |-> v, outcome |-> o]
NotCalled == CallState("idle", <<>>, None, Outcome("none", "", "", None))
\* Two calls on one instance: `running' is the call whose state is in pc,
\* stack, val and outcome, `other' is the state of the call that waits
Conc(running, other) == [running |-> running, other |-> other]
NoConc == Conc(0, NotCalled)

LexFirst(ru) ==
    IF ru.phase = 3
    THEN IF ru.script = <<>> THEN {StopIteration} ELSE {ru.script[1]}
    ELSE {StopIteration, LexFailure} \cup Alphabet(grammar)

LexNext ==
    IF exhausted THEN {StopIteration}
    ELSE IF reuse.phase = 3
    THEN IF Len(consumed) < Len(reuse.script)
         THEN {reuse.script[Len(consumed) + 1]} ELSE {StopIteration}
    ELSE {StopIteration}
         \cup (IF Len(consumed) < (IF reuse.phase = 0 THEN InputLimit(grammar)
                                   ELSE IF conc.running = 0 THEN ReuseLen
                                   ELSE ConcLen)
               THEN Alphabet(grammar) \cup {LexFailure} ELSE {})

Advance(r) ==
    /\ consumed' = IF r = StopIteration THEN consumed ELSE Append(consumed, r)
    /\ exhausted' = (exhausted \/ r \in {StopIteration, LexFailure})

\* An exception leaves parse: every activation is unwound
Raise(error, text) ==
    /\ pc' = "idle"
    /\ stack' = <<>>
    /\ val' = None
    /\ outcome' = Outcome("raised", error, text, None)

\* A handler closure calls self._parse(...): one more activation, or the
\* interpreter's recursion limit is hit
PushFrame(stk, frame) ==
    IF Len(stk) >= MaxDepth
    THEN Raise("RecursionError", "")
    ELSE /\ stack' = Append(stk, frame)
         /\ UNCHANGED <<pc, val, outcome>>

\* an activation that takes every first token for the last of the input
AfterNull_ends_input(stk, fr, ir) ==
    /\ stack' = Append(stk, [fr EXCEPT !.pc = IF fr.early_return THEN "ret"
                                              ELSE "loop"])
    /\ input_remaining' = FALSE
    /\ UNCHANGED <<pc, val, outcome>>

\* Lines 243-246, after the null handler has returned into activation fr;
\* ir is input_remaining as the handler left it
AfterNull(stk, fr, ir) ==
    /\ stack' = Append(stk, [fr EXCEPT !.pc = IF fr.early_return THEN "ret"
                                              ELSE "loop"])
    /\ input_remaining' = IF fr.early_return THEN FALSE ELSE ir
    /\ UNCHANGED <<pc, val, outcome>>

\* a _call_null that takes a missing null handler for one that yields 0
_call_null_lenient(fr, token) ==
    IF token.tag \notin DOMAIN parselets
    THEN Raise("SyntaxError", token.text) /\ UNCHANGED input_remaining
    ELSE LET func == parselets[token.tag].null
         IN  CASE func.kind \in {"none", "literal"} ->
                    AfterNull(Below,
                              [fr EXCEPT !.left_value =
                                  IF func.kind = "none" THEN Some(0)
                                  ELSE Some(TokenValue(token))],
                              input_remaining)
               [] func.kind = "prefix" ->
                    /\ PushFrame(Append(Below, fr),
                                 NewFrame(func.precedence, None,
                                          Caller("prefix", func.func, None, "")))
                    /\ UNCHANGED input_remaining
               [] func.kind = "surrounding" ->
                    /\ PushFrame(Append(Below, fr),
                                 NewFrame(0, None,
                                          Caller("surrounding", func.func, None,
                                                 func.end)))
                    /\ UNCHANGED input_remaining

\* _call_null(token) with _get_parselet and the installed null closures
_call_null(fr, token) ==
    IF token.tag \notin DOMAIN parselets
    THEN Raise("SyntaxError", token.text) /\ UNCHANGED input_remaining
    ELSE LET func == parselets[token.tag].null
         IN  CASE func.kind = "none" ->
                    Raise("SyntaxError", token.text) /\ UNCHANGED input_remaining
               [] func.kind = "literal" ->
                    AfterNull(Below,
                              [fr EXCEPT !.left_value = Some(TokenValue(token))],
                              input_remaining)
               [] func.kind = "prefix" ->
                    /\ PushFrame(Append(Below, fr),
                                 NewFrame(func.precedence, None,
                                          Caller("prefix", func.func, None, "")))
                    /\ UNCHANGED input_remaining
               [] func.kind = "surrounding" ->
                    /\ PushFrame(Append(Below, fr),
                                 NewFrame(0, None,
                                          Caller("surrounding", func.func, None,
                                                 func.end)))
                    /\ UNCHANGED input_remaining

\* _call_left(token, left) with the installed left closures.  The closure
\* _add_postfix installs takes one argument and is called with two.
_call_left(fr, token) ==
    LET func == parselets[token.tag].left
    IN  CASE func.kind = "none" -> Raise("SyntaxError", token.text)
          [] func.kind = "infix" ->
                PushFrame(Append(Below, fr),
                          NewFrame(func.precedence, None,
                                   Caller("infix", func.func, fr.left_value, "")))
          [] func.kind = "postfix" -> Raise("TypeError", "")

(***************************************************************************)
(* Parser.parse                                                            *)
(***************************************************************************)
\* parse as it would be if line 202 filled the lookahead only when none is
\* held: a lookahead left by the call before survives
parse_begin_keeps_lookahead(r) ==
    /\ consumed' = IF r = StopIteration THEN <<>> ELSE <<r>>
    /\ exhausted' = (r \in {StopIteration, LexFailure})
    /\ IF r \in {StopIteration, LexFailure}
       THEN /\ IF r = StopIteration THEN Raise("StopIteration", "")
               ELSE Raise("SyntaxError", r.text)
            /\ UNCHANGED <<lookahead, input_remaining>>
       ELSE /\ lookahead' = IF lookahead = NoToken THEN r ELSE lookahead
            /\ input_remaining' = TRUE
            /\ val' = None
            /\ pc' = "parse_loop"
            /\ stack' = <<>>
            /\ outcome' = Outcome("running", "", "", None)

\* Lines 201-204: a fresh generator, its first token r (or StopIteration,
\* which leaves parse from line 202), the flag and val
parse_begin(r) ==
    /\ consumed' = IF r = StopIteration THEN <<>> ELSE <<r>>
    /\ exhausted' = (r \in {StopIteration, LexFailure})
    /\ IF r \in {StopIteration, LexFailure}
       THEN /\ IF r = StopIteration THEN Raise("StopIteration", "")
               ELSE Raise("SyntaxError", r.text)
            /\ UNCHANGED <<lookahead, input_remaining>>
       ELSE /\ lookahead' = r
            /\ input_remaining' = TRUE
            /\ val' = None
            /\ pc' = "parse_loop"
            /\ stack' = <<>>
            /\ outcome' = Outcome("running", "", "", None)

\* A call of parse on the constructed parser
ParseStart ==
    /\ pc = "idle"
    /\ reuse.phase = 0
    /\ \E r \in LexFirst(reuse) : parse_begin(r)
    /\ UNCHANGED <<conc, lexer, reuse, grammar, parselets, reg_log, reg_error>>

\* Lines 206-207: while self.input_remaining: val = self._parse(left_value=val)
ParseCall ==
    /\ pc = "parse_loop"
    /\ input_remaining
    /\ stack' = <<NewFrame(0, val, Caller("parse", "", None, ""))>>
    /\ pc' = "_parse"
    /\ UNCHANGED <<conc, lexer, reuse, grammar, parselets, lookahead, input_remaining, val,
                   consumed, exhausted, outcome, reg_log, reg_error>>

\* Line 209: return val
ParseReturn ==
    /\ pc = "parse_loop"
    /\ ~input_remaining
    /\ pc' = "idle"
    /\ outcome' = Outcome("returned", "", "", val)
    /\ val' = None
    /\ UNCHANGED <<conc, lexer, reuse, grammar, parselets, stack, lookahead, input_remaining,
                   consumed, exhausted, reg_log, reg_error>>

(***************************************************************************)
(* Parser._parse                                                           *)
(***************************************************************************)
\* Lines 232-246: take the lookahead as the initial token and call its null
\* handler
ParseNull ==
    /\ pc = "_parse"
    /\ Top.pc = "null"
    /\ \E r \in LexNext :
          /\ Advance(r)
          /\ IF r = LexFailure
             THEN /\ Raise("SyntaxError", r.text)
                  /\ UNCHANGED <<lookahead, input_remaining>>
             ELSE /\ lookahead' = IF r = StopIteration THEN lookahead ELSE r
                  /\ _call_null([Top EXCEPT
                                    !.early_return = (r = StopIteration)],
                                lookahead)
    /\ UNCHANGED <<conc, lexer, reuse, grammar, parselets, reg_log, reg_error>>

\* Line 249 when the loop is not entered: the lookahead does not bind
\* tighter than max_bind, or its tag is no key of self.parselets
LoopExit ==
    /\ pc = "_parse"
    /\ Top.pc = "loop"
    /\ IF lookahead.tag \notin DOMAIN parselets
       THEN Raise("KeyError", lookahead.tag)
       ELSE /\ ~(Top.max_bind < parselets[lookahead.tag].precedence)
            /\ stack' = Append(Below, [Top EXCEPT !.pc = "ret"])
            /\ UNCHANGED <<pc, val, outcome>>
    /\ UNCHANGED <<conc, lexer, reuse, grammar, parselets, lookahead, input_remaining, consumed,
                   exhausted, reg_log, reg_error>>

\* Lines 249-254, one iteration: take the lookahead as the operator, advance,
\* call its left handler; StopIteration ends the activation
LoopOperator ==
    /\ pc = "_parse"
    /\ Top.pc = "loop"
    /\ lookahead.tag \in DOMAIN parselets
    /\ Top.max_bind < parselets[lookahead.tag].precedence
    /\ \E r \in LexNext :
          /\ Advance(r)
          /\ IF r = StopIteration
             THEN /\ input_remaining' = FALSE
                  /\ stack' = Append(Below, [Top EXCEPT !.pc = "ret"])
                  /\ UNCHANGED <<lookahead, pc, val, outcome>>
             ELSE IF r = LexFailure
             THEN /\ Raise("SyntaxError", r.text)
                  /\ UNCHANGED <<lookahead, input_remaining>>
             ELSE /\ lookahead' = r
                  /\ _call_left(Top, lookahead)
                  /\ UNCHANGED input_remaining
    /\ UNCHANGED <<conc, lexer, reuse, grammar, parselets, reg_log, reg_error>>

\* Lines 246/256 into line 207: val = self._parse(left_value=val)
ReturnToParse ==
    /\ pc = "_parse"
    /\ Top.pc = "ret"
    /\ Top.caller.kind = "parse"
    /\ val' = Top.left_value
    /\ stack' = <<>>
    /\ pc' = "parse_loop"
    /\ UNCHANGED <<conc, lexer, reuse, grammar, parselets, lookahead, input_remaining, consumed,
                   exhausted, outcome, reg_log, reg_error>>

\* Lines 167-168: the prefix closure applies func to the operand
ReturnToPrefix ==
    /\ pc = "_parse"
    /\ Top.pc = "ret"
    /\ Top.caller.kind = "prefix"
    /\ LET fr == stack[Len(stack) - 1]
           v == Apply1(Top.caller.func, Top.left_value[1])
       IN  AfterNull(SubSeq(stack, 1, Len(stack) - 2),
                     [fr EXCEPT !.left_value = Some(v)], input_remaining)
    /\ UNCHANGED <<conc, lexer, reuse, grammar, parselets, lookahead, consumed, exhausted,
                   reg_log, reg_error>>

\* Lines 173-174: the infix closure applies func to left and right, and the
\* loop of the calling activation goes on
ReturnToInfix ==
    /\ pc = "_parse"
    /\ Top.pc = "ret"
    /\ Top.caller.kind = "infix"
    /\ LET fr == stack[Len(stack) - 1]
           v == Apply2(Top.caller.func, Top.caller.left[1], Top.left_value[1])
       IN  stack' = Append(SubSeq(stack, 1, Len(stack) - 2),
                           [fr EXCEPT !.left_value = Some(v), !.pc = "loop"])
    /\ UNCHANGED <<conc, lexer, reuse, grammar, parselets, pc, val, outcome, lookahead,
                   input_remaining, consumed, exhausted, reg_log, reg_error>>

\* Lines 184-187 with _advance (211-225): the surrounding closure pulls off
\* the closer when the lookahead carries its tag, ignores what _advance
\* returns, and applies func to the body
ReturnToSurrounding ==
    /\ pc = "_parse"
    /\ Top.pc = "ret"
    /\ Top.caller.kind = "surrounding"
    /\ LET fr == stack[Len(stack) - 1]
           v == Apply1(Top.caller.func, Top.left_value[1])
           stk == SubSeq(stack, 1, Len(stack) - 2)
       IN  IF lookahead.tag = Top.caller.end
           THEN \E r \in LexNext :
                   /\ Advance(r)
                   /\ IF r = LexFailure
                      THEN /\ Raise("SyntaxError", r.text)
                           /\ UNCHANGED <<lookahead, input_remaining>>
                      ELSE /\ lookahead' = IF r = StopIteration
                                           THEN lookahead ELSE r
                           /\ AfterNull(stk,
                                        [fr EXCEPT !.left_value = Some(v)],
                                        IF r = StopIteration THEN FALSE
                                        ELSE input_remaining)
           ELSE /\ AfterNull(stk, [fr EXCEPT !.left_value = Some(v)],
                             input_remaining)
                /\ UNCHANGED <<lookahead, consumed, exhausted>>
    /\ UNCHANGED <<conc, lexer, reuse, grammar, parselets, reg_log, reg_error>>

(***************************************************************************)
(* The parser specification: a constructed parser serving parse calls      *)
(***************************************************************************)
Init ==
    /\ grammar \in Grammars
    /\ parselets = ParserOf(grammar)
    /\ pc = "idle"
    /\ stack = <<>>
    /\ lookahead = NoToken
    /\ input_remaining = FALSE
    /\ val = None
    /\ consumed = <<>>
    /\ exhausted = FALSE
    /\ outcome = Outcome("none", "", "", None)
    /\ reg_log = <<>>
    /\ reg_error = ""
    /\ reuse = NoReuse
    /\ lexer = NoLexer
    /\ conc = NoConc

Step ==
    \/ ParseCall
    \/ ParseReturn
    \/ ParseNull
    \/ LoopExit
    \/ LoopOperator
    \/ ReturnToParse
    \/ ReturnToPrefix
    \/ ReturnToInfix
    \/ ReturnToSurrounding

Next ==
    \/ ParseStart
    \/ Step

Spec == Init /\ [][Next]_vars

\* The interpreter keeps executing a call that has been started
FairSpec == Spec /\ WF_vars(Step)

(***************************************************************************)
(* Properties of parse calls                                               *)
(***************************************************************************)
\* The call has ended and the generator was run to its end, so that
\* `consumed' is the whole input
Ended == pc = "idle" /\ outcome.kind \in {"returned", "raised"}
EndedOn(g) == Ended /\ grammar = g /\ exhausted

Shape(tags) ==
    /\ Len(consumed) = Len(tags)
    /\ \A i \in 1..Len(tags) : consumed[i].tag = tags[i]

\* the value of the i-th token of the input
V(i) == TokenValue(consumed[i])

Returned(v) == Outcome("returned", "", "", Some(v))

\* C1: every parse call that has been started ends: it returns a value or
\* raises an error.
C1_ParseTerminates == (pc # "idle") ~> (pc = "idle")

\* C2: with the calculator grammar, `a L b MUL c' returns a L (b*c) and
\* `a MUL b L c' returns (a*b) L c, for L in {ADD, SUB}.
C2_HigherPrecedenceBindsTighter ==
    EndedOn("calc") =>
        \A L \in {"ADD", "SUB"} :
            LET low(l, r) == IF L = "ADD" THEN add(l, r) ELSE sub(l, r)
            IN  /\ Shape(<<"INT", L, "INT", "MUL", "INT">>)
                      => outcome = Returned(low(V(1), mul(V(3), V(5))))
                /\ Shape(<<"INT", "MUL", "INT", L, "INT">>)
                      => outcome = Returned(low(mul(V(1), V(3)), V(5)))

\* C3: with the calculator grammar, `a SUB b SUB c' returns (a-b)-c; 8-3-2
\* returns 3.
C3_SubIsLeftAssociative ==
    (EndedOn("calc") /\ Shape(<<"INT", "SUB", "INT", "SUB", "INT">>))
        => outcome = Returned(sub(sub(V(1), V(3)), V(5)))

\* C4: for POW registered through infix_r with handler pow, `a POW b POW c'
\* returns pow(a, pow(b, c)); 2^3^2 returns 512.  (Stated for the operands
\* whose right-grouped power TLC can represent.)
C4_InfixRIsRightAssociative ==
    (EndedOn("ext") /\ Shape(<<"INT", "POW", "INT", "POW", "INT">>)
        /\ pow(V(3), V(5)) <= 9)
        => outcome = Returned(pow(V(1), pow(V(3), V(5))))

\* C5: when a surrounding closure gets its body back and the lookahead is
\* not an unread token with the closing tag (another token, or the input
\* has ended), the parse call fails with a syntax error.
C5_MissingCloserIsSyntaxError ==
    [][(/\ pc = "_parse"
        /\ Top.pc = "ret"
        /\ Top.caller.kind = "surrounding"
        /\ (exhausted \/ lookahead.tag # Top.caller.end))
       => (outcome'.kind = "raised" /\ outcome'.error = "SyntaxError")]_vars

\* C6: when _parse dispatches on a lookahead whose tag has no entry in the
\* registry, at the start of an expression or after a parsed value, the
\* parse call fails with a syntax error carrying the token's text.
C6_UnregisteredTagIsSyntaxError ==
    [][(/\ pc = "_parse"
        /\ Top.pc \in {"null", "loop"}
        /\ lookahead.tag \notin DOMAIN parselets)
       => outcome' = Outcome("raised", "SyntaxError", lookahead.text, None)]_vars

\* C9: for BANG registered through postfix with handler fact, `v BANG'
\* returns fact(v), and `v BANG ADD w' goes on with fact(v) as the left
\* value and returns fact(v) + w.
C9_PostfixAppliesHandler ==
    EndedOn("ext") =>
        /\ Shape(<<"INT", "BANG">>) => outcome = Returned(fact(V(1)))
        /\ Shape(<<"INT", "BANG", "ADD", "INT">>)
              => outcome = Returned(add(fact(V(1)), V(4)))

\* C12: with the calculator grammar, where LPAREN and RPAREN are registered
\* as a surrounding pair whose handler parens returns its body,
\* `( a ADD b ) MUL c' returns (a+b)*c and `a MUL ( b ADD c )', whose closer
\* is the last token of the input, returns a*(b+c): the pair's result is one
\* operand of the operator outside.
C12_SurroundingGroupsOneOperand ==
    EndedOn("calc") =>
        /\ Shape(<<"LPAREN", "INT", "ADD", "INT", "RPAREN", "MUL", "INT">>)
              => outcome = Returned(mul(add(V(2), V(4)), V(7)))
        /\ Shape(<<"INT", "MUL", "LPAREN", "INT", "ADD", "INT", "RPAREN">>)
              => outcome = Returned(mul(V(1), add(V(4), V(6))))

C12_Witness ==
    /\ EndedOn("calc")
    /\ Shape(<<"INT", "MUL", "LPAREN", "INT", "ADD", "INT", "RPAREN">>)
    /\ outcome = Returned(mul(V(1), add(V(4), V(6))))
    /\ V(1) = 2 /\ V(4) = 3 /\ V(6) = 8

C12_WitnessCloserInside ==
    /\ EndedOn("calc")
    /\ Shape(<<"LPAREN", "INT", "ADD", "INT", "RPAREN", "MUL", "INT">>)
    /\ outcome = Returned(40)

\* C15: whenever parse has returned a value, the token generator of the
\* call is exhausted: next(self.tokens) has raised StopIteration, so every
\* token of the input was handed to the parser.
C15_ReturnMeansInputConsumed ==
    (pc = "idle" /\ outcome.kind = "returned")
        => /\ exhausted
           /\ consumed # <<>>
           /\ consumed[Len(consumed)] # LexFailure

\* `2 + 3' was parsed and 5 returned
C15_Witness ==
    /\ pc = "idle"
    /\ grammar = "calc"
    /\ outcome = Returned(5)
    /\ consumed = <<Tok("INT", "2"), Tok("ADD", "+"), Tok("INT", "3")>>
    /\ exhausted

\* the precedence loop is at its test (line 249) with an unread lookahead
\* that binds tighter than max_bind
OperatorTaken ==
    /\ pc = "_parse"
    /\ Top.pc = "loop"
    /\ ~exhausted
    /\ lookahead.tag \in DOMAIN parselets
    /\ Top.max_bind < parselets[lookahead.tag].precedence

\* C16: a token the precedence loop takes as an operator has its left
\* handler called with the current left value, or the parse call fails; the
\* operator is not dropped, also when it is the last token of the input.
C16_OperatorIsNeverDropped ==
    [][OperatorTaken
       => \/ outcome'.kind = "raised"
          \/ /\ Len(stack') = Len(stack) + 1
             /\ stack'[Len(stack')].caller
                   = Caller("infix", parselets[lookahead.tag].left.func,
                            Top.left_value, "")]_vars

\* an activation takes the lookahead as the first token of an expression
\* (line 234) and its tag has an entry without a null handler
NullHandlerMissing ==
    /\ pc = "_parse"
    /\ Top.pc = "null"
    /\ lookahead.tag \in DOMAIN parselets
    /\ parselets[lookahead.tag].null.kind = "none"

\* C17: when the token taken at the start of an expression has a registry
\* entry without a null handler, the parse call fails with a syntax error
\* that carries the text of that token, and no handler is called.
C17_MissingNullHandlerIsSyntaxError ==
    [][NullHandlerMissing
       => /\ outcome' = Outcome("raised", "SyntaxError", lookahead.text, None)
          /\ stack' = <<>>]_vars

\* C17, amended: the parse call fails with a syntax error and no handler is
\* called; the error carries the text of that token when the lexer yields
\* the token after it or ends there, and is the lexer's own error when lex
\* fails on the text after the token, since the lookahead is advanced
\* (line 237) before the null handler is looked up (line 241).
C17_MissingNullHandlerFailsAfterAdvance ==
    [][NullHandlerMissing
       => /\ outcome'.kind = "raised"
          /\ outcome'.error = "SyntaxError"
          /\ outcome'.text = IF Len(consumed') > Len(consumed)
                                  /\ consumed'[Len(consumed')] = LexFailure
                              THEN LexFailure.text ELSE lookahead.text
          /\ stack' = <<>>]_vars

\* `2 + +' with the calculator grammar: the second ADD is the first token
\* after an infix operator and has no null handler
C17_Witness ==
    /\ pc = "idle"
    /\ grammar = "calc"
    /\ consumed = <<Tok("INT", "2"), Tok("ADD", "+"), Tok("ADD", "+")>>
    /\ outcome = Outcome("raised", "SyntaxError", "+", None)

\* C18: for two tags registered only through infix at the same precedence
\* (ADD and SUB at 1 in the second grammar, with handlers add and sub; the
\* two may be the same tag), `a op1 b op2 c' returns H2(H1(a, b), c): the
\* operators group from left to right.
C18_EqualPrecedenceGroupsLeft ==
    EndedOn("ext") =>
        \A op1, op2 \in {"ADD", "SUB"} :
            LET H(op, l, r) == IF op = "ADD" THEN add(l, r) ELSE sub(l, r)
            IN  Shape(<<"INT", op1, "INT", op2, "INT">>)
                    => outcome = Returned(H(op2, H(op1, V(1), V(3)), V(5)))

\* `2 - 3 - 3' returned (2-3)-3 = -4, where grouping to the right gives 2
C18_Witness ==
    /\ EndedOn("ext")
    /\ consumed = <<Tok("INT", "2"), Tok("SUB", "-"), Tok("INT", "3"),
                    Tok("SUB", "-"), Tok("INT", "3")>>
    /\ outcome = Returned(0 - 4)

(***************************************************************************)
(* The registry specification: registration calls on a registry under      *)
(* construction                                                            *)
(***************************************************************************)
RegTags == {"SUB", "RPAREN"}
RegPrecedences == {1, 10}

\* The registration calls drawn: every role, on either tag, at either
\* precedence
RegDecls ==
    {prefix(t, p, "negate") : t \in RegTags, p \in RegPrecedences}
    \cup {infix(t, p, "sub") : t \in RegTags, p \in RegPrecedences}
    \cup {infix_r(t, p, "pow") : t \in RegTags, p \in RegPrecedences}
    \cup {postfix(t, p, "fact") : t \in RegTags, p \in RegPrecedences}
    \cup {surrounding(te[1], te[2], p, "parens") :
              te \in {x \in RegTags \X RegTags : x[1] # x[2]},
              p \in RegPrecedences}
    \cup {Symbol(t) : t \in RegTags}
    \cup {Literal(t) : t \in RegTags}

InitReg ==
    /\ grammar = "none"
    /\ parselets = EmptyRegistry
    /\ pc = "idle"
    /\ stack = <<>>
    /\ lookahead = NoToken
    /\ input_remaining = FALSE
    /\ val = None
    /\ consumed = <<>>
    /\ exhausted = FALSE
    /\ outcome = Outcome("none", "", "", None)
    /\ reg_log = <<>>
    /\ reg_error = ""
    /\ reuse = NoReuse
    /\ lexer = NoLexer
    /\ conc = NoConc

\* One registration call (lines 129-142, or a direct call of an _add_*
\* method); a caller may go on after a call has raised
RegisterCall ==
    /\ Len(reg_log) < MaxRegs
    /\ \E d \in RegDecls :
          LET r == Register(parselets, d)
          IN  /\ parselets' = r.parselets
              /\ reg_error' = r.error
              /\ reg_log' = Append(reg_log, [decl |-> d, error |-> r.error])
    /\ UNCHANGED <<conc, lexer, reuse, grammar, pc, stack, lookahead,
                   input_remaining, val, consumed, exhausted, outcome>>

NextReg == RegisterCall

SpecReg == InitReg /\ [][NextReg]_vars

\* the kind of handler a registration installs on its tag
InstallsNull(d) == d.role \in {"prefix", "surrounding", "literal"}
InstallsLeft(d) == d.role \in {"infix", "postfix"}

HasNull(ps, tag) == tag \in DOMAIN ps /\ ps[tag].null.kind # "none"
HasLeft(ps, tag) == tag \in DOMAIN ps /\ ps[tag].left.kind # "none"

LastCall == reg_log[Len(reg_log)]

\* C7: a registration of a null (left) handler on a tag that has a null
\* (left) handler raises the configuration error in that call and leaves
\* the first handler in place; every other registration, one null and one
\* left handler on the same tag included, raises nothing.
C7_DuplicateHandlerRaisesAtRegistration ==
    [][reg_log' # reg_log =>
        LET d == LastCall'.decl
        IN  /\ (InstallsNull(d) /\ HasNull(parselets, d.tag))
                  => /\ reg_error' = "RuntimeError: null handler already defined"
                     /\ parselets'[d.tag].null = parselets[d.tag].null
            /\ (InstallsLeft(d) /\ HasLeft(parselets, d.tag))
                  => /\ reg_error' = "RuntimeError: left handler already defined"
                     /\ parselets'[d.tag].left = parselets[d.tag].left
            /\ ~(InstallsNull(d) /\ HasNull(parselets, d.tag))
                  /\ ~(InstallsLeft(d) /\ HasLeft(parselets, d.tag))
                  => reg_error' = ""]_vars

\* A second null handler was refused on a tag that holds a null and a left
\* handler registered without error
C7_Witness ==
    /\ Len(reg_log) = 3
    /\ reg_log[1].decl = prefix("SUB", 10, "negate")
    /\ reg_log[2].decl = infix("SUB", 1, "sub")
    /\ reg_log[1].error = "" /\ reg_log[2].error = ""
    /\ reg_log[3].decl = Literal("SUB")
    /\ reg_error = "RuntimeError: null handler already defined"
    /\ parselets["SUB"].null.func = "negate"

\* the precedences that the registration d passes in under tag: a
\* surrounding pair passes its precedence under the opener and 0 under the
\* closer (lines 188-189), a symbol or a literal passes 0 (lines 163, 195)
PassedIn(d, tag) ==
    IF d.role = "surrounding"
    THEN (IF d.tag = tag THEN {d.precedence} ELSE {})
         \cup (IF d.end = tag THEN {0} ELSE {})
    ELSE IF d.tag # tag THEN {}
    ELSE IF d.role \in {"symbol", "literal"} THEN {0}
    ELSE {d.precedence}

PassedUnder(tag) ==
    UNION {PassedIn(reg_log[i].decl, tag) : i \in 1..Len(reg_log)}

SetMax(S) == CHOOSE m \in S : \A x \in S : x <= m

AllAccepted == \A i \in 1..Len(reg_log) : reg_log[i].error = ""

\* C13: after registrations that were all accepted, in any order, the
\* precedence stored for a tag is the maximum of the precedences passed in
\* under that tag, where a symbol, a literal and the closer of a surrounding
\* pair pass 0; a tag nothing was registered under has no entry.
C13_StoredPrecedenceIsMaximum ==
    AllAccepted =>
        \A tag \in RegTags :
            IF PassedUnder(tag) = {} THEN tag \notin DOMAIN parselets
            ELSE /\ tag \in DOMAIN parselets
                 /\ parselets[tag].precedence = SetMax(PassedUnder(tag))

\* SUB is first a prefix operator at 10, then the closer of a pair, then an
\* infix operator at 1: it is stored at 10, and the pair's opener at 1
C13_Witness ==
    /\ Len(reg_log) = 3
    /\ AllAccepted
    /\ reg_log[1].decl = prefix("SUB", 10, "negate")
    /\ reg_log[2].decl = surrounding("RPAREN", "SUB", 1, "parens")
    /\ reg_log[3].decl = infix("SUB", 1, "sub")
    /\ parselets["SUB"].precedence = 10
    /\ parselets["RPAREN"].precedence = 1

\* C19: a registration call that raises the configuration error leaves the
\* registry as it was: the same tags, and for each the same null handler,
\* left handler and precedence.
C19_RefusedRegistrationChangesNothing ==
    [][(reg_log' # reg_log /\ reg_error' # "") => parselets' = parselets]_vars

(***************************************************************************)
(* The reuse specification: a parser instance serves earlier calls and     *)
(* then a call parse(t); a freshly constructed parser is given the same t  *)
(***************************************************************************)
ReuseInit ==
    /\ grammar \in Grammars
    /\ parselets = ParserOf(grammar)
    /\ pc = "idle"
    /\ stack = <<>>
    /\ lookahead = NoToken
    /\ input_remaining = FALSE
    /\ val = None
    /\ consumed = <<>>
    /\ exhausted = FALSE
    /\ outcome = Outcome("none", "", "", None)
    /\ reg_log = <<>>
    /\ reg_error = ""
    /\ reuse = Reuse(1, <<>>, NoPrior, Outcome("none", "", "", None))
    /\ lexer = NoLexer
    /\ conc = NoConc

\* An earlier call of parse on the instance; the call before it, if any,
\* has ended
EarlierCall ==
    /\ pc = "idle"
    /\ reuse.phase = 1
    /\ \E r \in LexFirst(reuse) : parse_begin(r)
    /\ UNCHANGED <<conc, lexer, reuse, grammar, parselets, reg_log, reg_error>>

\* The call parse(t) on the same instance
ComparedCall ==
    /\ pc = "idle"
    /\ reuse.phase = 1
    /\ \E r \in LexFirst(reuse) : parse_begin(r)
    /\ reuse' = [reuse EXCEPT !.phase = 2,
                              !.prior = [kind |-> outcome.kind,
                                         part_way |-> ~exhausted]]
    /\ UNCHANGED <<conc, lexer, grammar, parselets, reg_log, reg_error>>

\* Parser.__init__ (lines 120-124) for a second instance of the same class,
\* once parse(t) has ended; t and the way the call ended are kept
ConstructFresh ==
    /\ pc = "idle"
    /\ reuse.phase = 2
    /\ outcome.kind \in {"returned", "raised"}
    /\ reuse' = [reuse EXCEPT !.phase = 3, !.script = consumed,
                              !.expected = outcome]
    /\ lookahead' = NoToken
    /\ input_remaining' = FALSE
    /\ consumed' = <<>>
    /\ exhausted' = FALSE
    /\ outcome' = Outcome("none", "", "", None)
    /\ UNCHANGED <<conc, lexer, grammar, parselets, pc, stack, val, reg_log, reg_error>>

\* parse(t) on the fresh instance
FreshCall ==
    /\ pc = "idle"
    /\ reuse.phase = 3
    /\ outcome.kind = "none"
    /\ \E r \in LexFirst(reuse) : parse_begin(r)
    /\ UNCHANGED <<conc, lexer, reuse, grammar, parselets, reg_log, reg_error>>

NextReuse ==
    \/ EarlierCall
    \/ ComparedCall
    \/ ConstructFresh
    \/ FreshCall
    \/ Step

SpecReuse == ReuseInit /\ [][NextReuse]_vars

(***************************************************************************)
(* The interleaving specification: parse(t) runs alone on one instance;    *)
(* then two calls parse(t) run on a freshly constructed instance, their    *)
(* steps interleaved.  self.tokens, self.lookahead and                     *)
(* self.input_remaining are attributes of the instance (lines 203-205,     *)
(* 236, 244, 251, 254): both calls read and write the same ones.           *)
(***************************************************************************)
ConcInit ==
    /\ grammar \in Grammars
    /\ parselets = ParserOf(grammar)
    /\ pc = "idle"
    /\ stack = <<>>
    /\ lookahead = NoToken
    /\ input_remaining = FALSE
    /\ val = None
    /\ consumed = <<>>
    /\ exhausted = FALSE
    /\ outcome = Outcome("none", "", "", None)
    /\ reg_log = <<>>
    /\ reg_error = ""
    /\ reuse = Reuse(1, <<>>, NoPrior, Outcome("none", "", "", None))
    /\ lexer = NoLexer
    /\ conc = Conc(1, NotCalled)

\* The running call is suspended between two of its steps and the other
\* call goes on, or is free to start
Switch ==
    /\ conc.running \in {1, 2}
    /\ reuse.phase = 3
    /\ conc' = Conc(3 - conc.running, CallState(pc, stack, val, outcome))
    /\ pc' = conc.other.pc
    /\ stack' = conc.other.stack
    /\ val' = conc.other.val
    /\ outcome' = conc.other.outcome
    /\ UNCHANGED <<lexer, reuse, grammar, parselets, lookahead,
                   input_remaining, consumed, exhausted, reg_log, reg_error>>

\* ComparedCall is parse(t) alone, ConstructFresh keeps t and how it ended,
\* FreshCall is the start of either of the two interleaved calls
NextConc ==
    \/ ComparedCall
    \/ ConstructFresh
    \/ FreshCall
    \/ Switch
    \/ Step

SpecConc == ConcInit /\ [][NextConc]_vars

\* C11: two parse calls on one instance whose steps interleave each end as
\* the call ends when it runs alone: same returned value, for every
\* interleaving.
C11_InterleavedCallsEndAsAlone ==
    (conc.running # 0 /\ reuse.phase = 3 /\ reuse.expected.kind = "returned")
        => /\ Ended => outcome = reuse.expected
           /\ conc.other.outcome.kind \in {"returned", "raised"}
                 => conc.other.outcome = reuse.expected

\* C8: parse(t) on an instance that has served earlier calls ends as
\* parse(t) ends on a freshly constructed parser: with the same value, or
\* with the same error.
C8_ParseIndependentOfEarlierCalls ==
    (reuse.phase = 3 /\ Ended) => outcome = reuse.expected

\* parse(t) returned a value on an instance whose earlier call had failed
\* part-way through its input, and on the fresh instance
C8_Witness ==
    /\ reuse.phase = 3
    /\ Ended
    /\ reuse.prior = [kind |-> "raised", part_way |-> TRUE]
    /\ outcome.kind = "returned"
    /\ Len(reuse.script) = 3

(***************************************************************************)
(* The lexer specification: one call of lex, run to its end                *)
(***************************************************************************)
InitLex ==
    /\ grammar = "none"
    /\ parselets = EmptyRegistry
    /\ pc = "idle"
    /\ stack = <<>>
    /\ lookahead = NoToken
    /\ input_remaining = FALSE
    /\ val = None
    /\ consumed = <<>>
    /\ exhausted = FALSE
    /\ outcome = Outcome("none", "", "", None)
    /\ reg_log = <<>>
    /\ reg_error = ""
    /\ reuse = NoReuse
    /\ conc = NoConc
    /\ \E cls \in Lexers, text \in Texts :
          lexer = LexerState(cls, text, 1, <<>>, {}, "scanning", <<>>)

\* The generator body of lex at its next match (lines 90-99)
LexTags == TagsOf(lexer.cls)
LexAt == NextMatchPos(LexTags, lexer.text, lexer.pos)
LexRule == LexTags[FirstRule(LexTags, lexer.text, LexAt)]
LexMatchText ==
    SubSeq(lexer.text, LexAt,
           LexAt + MatchLen(lexer.text, LexRule.regex, LexAt) - 1)
\* the positions finditer passes over before the match
LexPassed == lexer.skipped \cup (lexer.pos .. (LexAt - 1))

LexScanning == lexer.state = "scanning" /\ LexAt <= Len(lexer.text)

\* a lex whose `continue' is missing: the ignored match is yielded
LexIgnore_yields ==
    /\ LexScanning
    /\ StartsWithIGNORE(LexRule.tag)
    /\ lexer' = [lexer EXCEPT !.pos = LexAt + Len(LexMatchText),
                              !.skipped = LexPassed,
                              !.emitted = Append(@, Tok(LexRule.tag,
                                                        LexMatchText))]
    /\ UNCHANGED <<conc, reuse, grammar, parselets, pc, stack, lookahead,
                   input_remaining, val, consumed, exhausted, outcome,
                   reg_log, reg_error>>

\* Lines 93-94: the match of an ignore rule is dropped
LexIgnore ==
    /\ LexScanning
    /\ StartsWithIGNORE(LexRule.tag)
    /\ lexer' = [lexer EXCEPT !.pos = LexAt + Len(LexMatchText),
                              !.skipped = LexPassed]
    /\ UNCHANGED <<conc, reuse, grammar, parselets, pc, stack, lookahead,
                   input_remaining, val, consumed, exhausted, outcome,
                   reg_log, reg_error>>

\* Line 99 with tag_map['LEX_ERROR'] = lex_error: SyntaxError leaves lex
LexError ==
    /\ LexScanning
    /\ ~StartsWithIGNORE(LexRule.tag)
    /\ LexRule.tag = "LEX_ERROR"
    /\ lexer' = [lexer EXCEPT !.pos = LexAt, !.skipped = LexPassed,
                              !.state = "raised", !.error = LexMatchText]
    /\ UNCHANGED <<conc, reuse, grammar, parselets, pc, stack, lookahead,
                   input_remaining, val, consumed, exhausted, outcome,
                   reg_log, reg_error>>

\* Lines 97-99: a token is yielded
LexEmit ==
    /\ LexScanning
    /\ ~StartsWithIGNORE(LexRule.tag)
    /\ LexRule.tag # "LEX_ERROR"
    /\ lexer' = [lexer EXCEPT !.pos = LexAt + Len(LexMatchText),
                              !.skipped = LexPassed,
                              !.emitted = Append(@, Tok(LexRule.tag, LexMatchText))]
    /\ UNCHANGED <<conc, reuse, grammar, parselets, pc, stack, lookahead,
                   input_remaining, val, consumed, exhausted, outcome,
                   reg_log, reg_error>>

\* finditer finds no further match: the generator ends
LexEnd ==
    /\ lexer.state = "scanning"
    /\ LexAt > Len(lexer.text)
    /\ lexer' = [lexer EXCEPT !.pos = LexAt, !.skipped = LexPassed,
                              !.state = "done"]
    /\ UNCHANGED <<conc, reuse, grammar, parselets, pc, stack, lookahead,
                   input_remaining, val, consumed, exhausted, outcome,
                   reg_log, reg_error>>

NextLex ==
    \/ LexIgnore
    \/ LexError
    \/ LexEmit
    \/ LexEnd

SpecLex == InitLex /\ [][NextLex]_vars

\* a configured ignore-pattern, symbol or tag pattern matches at position q
Covered(q) ==
    \E i \in 1..Len(LexTags) :
        /\ LexTags[i].tag # "LEX_ERROR"
        /\ MatchLen(lexer.text, LexTags[i].regex, q) > 0

\* C10: the character at the scan position is reported as a lexical error
\* naming it exactly when no ignore-pattern, symbol or tag pattern matches
\* there, a line break included.
C10_LexErrorIffUncovered ==
    [][(lexer.state = "scanning" /\ lexer.pos <= Len(lexer.text))
       => ((/\ lexer'.state = "raised"
            /\ lexer'.pos = lexer.pos
            /\ lexer'.error = <<lexer.text[lexer.pos]>>)
           <=> ~Covered(lexer.pos))]_vars

\* the winning alternative of the next match is a rule added by ignore
LexIgnoreWins ==
    /\ LexScanning
    /\ AddedByIgnore(lexer.cls, FirstRule(LexTags, lexer.text, LexAt))

\* the winning alternative of the next match is a symbol or tag rule
LexTokenWins ==
    /\ LexScanning
    /\ ~AddedByIgnore(lexer.cls, FirstRule(LexTags, lexer.text, LexAt))
    /\ LexRule.tag # "LEX_ERROR"

\* C14: a match whose winning alternative is an ignore rule yields no
\* token, and the scan goes on after the match.
C14_IgnoredMatchYieldsNoToken ==
    [][LexIgnoreWins
       => /\ lexer'.emitted = lexer.emitted
          /\ lexer'.state = "scanning"
          /\ lexer'.pos = LexAt + Len(LexMatchText)]_vars

\* `+ +' was lexed by PlusLex: the blank between the two symbols was matched
\* by the ignore rule and yielded nothing
C14_Witness ==
    /\ lexer.cls = "PlusLex"
    /\ lexer.text = <<"+", " ", "+">>
    /\ lexer.state = "done"
    /\ lexer.emitted = <<Tok("ADD", <<"+">>), Tok("ADD", <<"+">>)>>

\* C20: a match whose winning alternative is a symbol or tag rule is
\* yielded as a token with that rule's tag, whatever the tag is named, a tag
\* whose name begins with IGNORE included.
C20_EveryTokenRuleMatchIsYielded ==
    [][LexTokenWins
       => lexer'.emitted
             = Append(lexer.emitted, Tok(LexRule.tag, LexMatchText))]_vars

====
